---------------------------- MODULE Spec2Model ----------------------------
(***************************************************************************)
(* Model of the diff chunker and the LLM dispatcher of the code reviewer   *)
(* (src/src/index.js, class GitHubActionsReviewer).                        *)
(*                                                                         *)
(* Text is a sequence of tokens.  The file-boundary marker "--- File: "    *)
(* has no proper overlap with itself, so every string decomposes uniquely  *)
(* into marker occurrences and the characters between them:                *)
(*   "M"  the marker "--- File: "            (10 chars, 10 UTF-8 bytes)    *)
(*   "n"  a newline                          ( 1 char,   1 byte)           *)
(*   "a"  an ASCII character                 ( 1 char,   1 byte)           *)
(*   "u"  a BMP character outside ASCII      ( 1 char,   3 bytes)          *)
(*   "T"  the header tail " ---\n"           ( 5 chars,  5 bytes)          *)
(*   "K"  a run of 200*1024 ASCII characters holding no marker             *)
(* An optional value (null or a value) is a sequence of length <= 1.       *)
(***************************************************************************)
EXTENDS Integers, Sequences, FiniteSets, TLC

VARIABLES
    pc,             \* position of the run
    diff,           \* the diff handed to splitDiffIntoChunks / callLLM
    maxChunkSize,   \* the maxChunkSize argument: <<>> when missing or null
    chunks,         \* the array returned by splitDiffIntoChunks
    provider,       \* this.provider
    apiKeySet,      \* the environment holds the key of the selected provider
    moduleFound,    \* import('node-fetch') resolves
    i,              \* loop index of processChunksIntelligently
    totalChunks,    \* the totalChunks argument of the calls in progress
    call,           \* chunk index -> the callLLMChunk invocation for it
    results,        \* the results array of processChunksIntelligently
    settled,        \* chunk indices in the order their calls settled
    llmResponse,    \* what callLLM returned: <<>> for null
    history,        \* responses received by the call under study
    shouldBlockMerge, \* what checkMergeDecision returned: <<>> before it ran
    failed          \* core.setFailed was called

splitVars == <<diff, maxChunkSize, chunks>>
envVars == <<provider, apiKeySet, moduleFound>>
callVars == <<call, settled>>
runVars == <<i, totalChunks, results, llmResponse>>
reviewVars == <<shouldBlockMerge, failed>>

vars == <<pc, splitVars, envVars, callVars, runVars, history, reviewVars>>

---------------------------------------------------------------------------
(* Bounds of the model *)

MaxDiffLen == 4
MaxChunkBytes == 24
MaxFiles == 2
MaxChunks == 5
MaxPieces == 3

---------------------------------------------------------------------------
(* Text *)

None == <<>>
Some(x) == <<x>>

Marker == "M"

RunLength == 200 * 1024

\* Buffer.byteLength(token, 'utf8')
TokenBytes(t) ==
    CASE t = "M" -> 10
      [] t = "n" -> 1
      [] t = "a" -> 1
      [] t = "u" -> 3
      [] t = "T" -> 5
      [] t = "K" -> RunLength

\* String.prototype.length (UTF-16 code units)
TokenChars(t) ==
    CASE t = "M" -> 10
      [] t = "n" -> 1
      [] t = "a" -> 1
      [] t = "u" -> 1
      [] t = "T" -> 5
      [] t = "K" -> RunLength

RECURSIVE ByteLength(_)
ByteLength(s) ==
    IF s = <<>> THEN 0 ELSE TokenBytes(Head(s)) + ByteLength(Tail(s))

RECURSIVE StringLength(_)
StringLength(s) ==
    IF s = <<>> THEN 0 ELSE TokenChars(Head(s)) + StringLength(Tail(s))

RECURSIVE Concat(_)
Concat(ss) ==
    IF ss = <<>> THEN <<>> ELSE Head(ss) \o Concat(Tail(ss))

\* Array.prototype.join
RECURSIVE Join(_, _)
Join(ss, sep) ==
    IF ss = <<>> THEN <<>>
    ELSE IF Len(ss) = 1 THEN ss[1]
    ELSE ss[1] \o sep \o Join(Tail(ss), sep)

---------------------------------------------------------------------------
(* CONFIG *)

DEFAULT_CHUNK_SIZE == 300 * 1024

---------------------------------------------------------------------------
(* splitDiffIntoChunks *)

\* const chunkSize = maxChunkSize || this.chunkSize
effectiveChunkSize(size) ==
    IF size = None \/ size[1] = 0 THEN DEFAULT_CHUNK_SIZE ELSE size[1]

\* the first position after `from` that holds a marker, Len(d)+1 if none
NextBoundary(d, from) ==
    LET later == {q \in (from + 1)..Len(d) : d[q] = Marker}
    IN  IF later = {} THEN Len(d) + 1
        ELSE CHOOSE q \in later : \A j \in later : q <= j

\* d.split(/(?=--- File: )/) from position `from` on, d not empty
RECURSIVE SplitFrom(_, _)
SplitFrom(d, from) ==
    IF from > Len(d) THEN <<>>
    ELSE LET nxt == NextBoundary(d, from)
         IN  <<SubSeq(d, from, nxt - 1)>> \o SplitFrom(d, nxt)

\* a split that consumes the marker instead of looking ahead
RECURSIVE SplitFromConsuming(_, _)
SplitFromConsuming(d, from) ==
    IF from > Len(d) THEN <<>>
    ELSE LET nxt == NextBoundary(d, from)
             first == IF d[from] = Marker /\ from > 1 THEN from + 1 ELSE from
         IN  <<SubSeq(d, first, nxt - 1)>> \o SplitFromConsuming(d, nxt)

fileSectionsMarkerLost(d) == SplitFromConsuming(d, 1)

fileSectionsOf(d) == SplitFrom(d, 1)

\* the section is appended to a non-empty chunk whatever its size
startsNewChunkNoEmptyCheck(currentSize, sectionSize, chunkSize, currentChunk) ==
    currentSize + sectionSize > chunkSize

\* a section that fills the chunk exactly starts a new one
startsNewChunkEager(currentSize, sectionSize, chunkSize, currentChunk) ==
    currentSize + sectionSize >= chunkSize /\ StringLength(currentChunk) > 0

\* the size is tested before the section is added
startsNewChunkLate(currentSize, sectionSize, chunkSize, currentChunk) ==
    currentSize > chunkSize /\ StringLength(currentChunk) > 0

\* currentSize + sectionSize > chunkSize && currentChunk.length > 0
startsNewChunk(currentSize, sectionSize, chunkSize, currentChunk) ==
    currentSize + sectionSize > chunkSize /\ StringLength(currentChunk) > 0

\* the for loop over fileSections and the push of the last chunk
RECURSIVE chunkLoop(_, _, _, _, _, _)
chunkLoop(fileSections, at, acc, currentChunk, currentSize, chunkSize) ==
    IF at > Len(fileSections)
    THEN IF StringLength(currentChunk) > 0 THEN Append(acc, currentChunk) ELSE acc
    ELSE LET section == fileSections[at]
             sectionSize == ByteLength(section)
         IN  IF startsNewChunk(currentSize, sectionSize, chunkSize, currentChunk)
             THEN chunkLoop(fileSections, at + 1, Append(acc, currentChunk),
                            section, sectionSize, chunkSize)
             ELSE chunkLoop(fileSections, at + 1, acc,
                            currentChunk \o section, currentSize + sectionSize,
                            chunkSize)

splitDiffIntoChunks(d, size) ==
    LET chunkSize == effectiveChunkSize(size)
    IN  IF StringLength(d) = 0 THEN <<>>
        ELSE IF chunkSize <= 0 THEN <<d>>
        ELSE chunkLoop(fileSectionsOf(d), 1, <<>>, <<>>, 0, chunkSize)

---------------------------------------------------------------------------
(* getFullDiff *)

\* `\n--- File: ${filePath} ---\n${fileDiff}\n`
diffWithHeader(file) ==
    <<"n", Marker>> \o file.path \o <<"T">> \o file.fileDiff \o <<"n">>

RECURSIVE allDiffsOf(_)
allDiffsOf(files) ==
    IF files = <<>> THEN <<>>
    ELSE IF Head(files).fileDiff # <<>>
         THEN <<diffWithHeader(Head(files))>> \o allDiffsOf(Tail(files))
         ELSE allDiffsOf(Tail(files))

getFullDiff(changedFiles) == Join(allDiffsOf(changedFiles), <<"n">>)

---------------------------------------------------------------------------
(* LLM collaborator: what one fetch can answer *)

\* LLM_PROVIDERS
SupportedProviders == {"openai", "claude"}

\* the text the model writes about chunk idx
ReplyText(idx) == <<"reply", ToString(idx)>>

\* a JSON body: each field absent (<<>>) or an array of items; an item is
\* the text found at .text / .message.content, <<>> when it is not a string
Body(content, choices) == [content |-> content, choices |-> choices]

Bodies(idx) ==
    { Body(Some(<<Some(ReplyText(idx))>>), None),     \* Claude envelope
      Body(None, Some(<<Some(ReplyText(idx))>>)),     \* OpenAI envelope
      Body(Some(<<>>), Some(<<>>)),                   \* empty arrays
      Body(Some(<<None>>), Some(<<None>>)),           \* text is not a string
      Body(Some(<<Some(<<"n">>)>>), Some(<<Some(<<"n">>)>>)) }  \* blank text

HttpResponse(status, retryAfter, mentionsToken, body) ==
    [kind |-> "http", status |-> status, retryAfter |-> retryAfter,
     mentionsToken |-> mentionsToken, body |-> body]

NoBody == Body(None, None)

\* fetch rejects: the 60 s timeout or a transport error
Timeout ==
    [kind |-> "timeout", status |-> 0, retryAfter |-> None,
     mentionsToken |-> FALSE, body |-> NoBody]

RetryAfterHints == {None, Some(0), Some(7)}

Responses(idx) ==
    {Timeout}
    \cup {HttpResponse(200, None, FALSE, b) : b \in Bodies(idx)}
    \cup {HttpResponse(429, h, FALSE, NoBody) : h \in RetryAfterHints}
    \cup {HttpResponse(400, None, t, NoBody) : t \in BOOLEAN}
    \cup {HttpResponse(st, None, FALSE, NoBody) : st \in {401, 503}}

---------------------------------------------------------------------------
(* callLLMChunk *)

maxRetries == 3

baseDelay == 1000

RECURSIVE Pow2(_)
Pow2(n) == IF n <= 0 THEN 1 ELSE 2 * Pow2(n - 1)

\* a key is reported whatever the provider and the environment
getApiKeyAlways == Some("key")

\* getApiKey: <<>> for null
getApiKey ==
    IF provider \in {"openai", "claude"} /\ apiKeySet THEN Some("key") ELSE None

\* the placeholder asks in so many words not to merge
handleTokenLimitExceededBlocking(idx, total) ==
    <<"tokenLimitPlaceholder", ToString(idx + 1), ToString(total), "do not merge">>

\* handleTokenLimitExceeded: the placeholder names chunk idx+1 of total
handleTokenLimitExceeded(idx, total) ==
    <<"tokenLimitPlaceholder", ToString(idx + 1), ToString(total)>>

validateLLMResponse(data, prov) ==
    IF prov = "claude" THEN data.content # None /\ Len(data.content[1]) > 0
    ELSE IF prov = "openai" THEN data.choices # None /\ Len(data.choices[1]) > 0
    ELSE FALSE

\* providerConfig.extractResponse
extractResponse(data, prov) ==
    IF prov = "claude" THEN data.content[1][1] ELSE data.choices[1][1]

\* result.trim().length === 0
Blank(text) == \A k \in 1..Len(text) : text[k] = "n"

\* a blank string is taken for a review
validResultNoTrim(result) == result # None

\* result && typeof result === 'string' && result.trim().length > 0
validResult(result) == result # None /\ ~Blank(result[1])

Idle == [pc |-> "idle", attempt |-> 0, delay |-> 0, ret |-> None]

\* the call is over: its locals are gone, its promise holds the value
Returned(c, value) == [pc |-> "returned", attempt |-> 0, delay |-> 0, ret |-> value]

Waiting(c, ms) == [c EXCEPT !.pc = "backoff", !.delay = ms]

\* the catch block backs off on the last attempt too
CaughtAlwaysWaits(c) == Waiting(c, baseDelay * Pow2(c.attempt - 1))

\* the catch block: give up on the last attempt, else back off and loop
Caught(c) ==
    IF c.attempt = maxRetries THEN Returned(c, None)
    ELSE Waiting(c, baseDelay * Pow2(c.attempt - 1))

\* the loop runs one attempt less
loopContinuesShort(attempt) == attempt < maxRetries

\* attempt <= maxRetries
loopContinues(attempt) == attempt <= maxRetries

\* the top of the for loop up to the fetch being sent
LoopTop(attempt) ==
    LET c == [pc |-> "fetching", attempt |-> attempt, delay |-> 0, ret |-> None]
    IN  IF ~loopContinues(attempt) THEN Returned(c, None)
        ELSE IF ~moduleFound THEN Returned(c, None)
        ELSE IF provider \notin SupportedProviders THEN Caught(c)
        ELSE IF getApiKey = None THEN Returned(c, None)
        ELSE c

\* the retry-after header is not read
retryAfterSecondsNoHint(r, attempt) == Pow2(attempt)

\* parseInt(response.headers.get('retry-after')) || Math.pow(2, attempt)
retryAfterSeconds(r, attempt) ==
    IF r.retryAfter # None /\ r.retryAfter[1] # 0 THEN r.retryAfter[1]
    ELSE Pow2(attempt)

\* a token-limit 400 is thrown like any other 4xx
isTokenLimitNever(r) == FALSE

\* response.status === 400 && errorData.includes('token')
isTokenLimit(r) == r.status = 400 /\ r.mentionsToken

\* the body of the try block from the fetch result on
OnResponse(r, c, idx, total) ==
    IF r.kind = "timeout" THEN Caught(c)
    ELSE IF ~(r.status >= 200 /\ r.status <= 299)
    THEN IF r.status = 429
         THEN Waiting(c, retryAfterSeconds(r, c.attempt) * 1000)
         ELSE IF isTokenLimit(r)
         THEN Returned(c, Some(handleTokenLimitExceeded(idx, total)))
         ELSE IF r.status >= 500
         THEN Waiting(c, baseDelay * Pow2(c.attempt - 1))
         ELSE Caught(c)
    ELSE IF ~validateLLMResponse(r.body, provider) THEN Caught(c)
    ELSE IF ~validResult(extractResponse(r.body, provider)) THEN Caught(c)
    ELSE Returned(c, extractResponse(r.body, provider))

Idx == 0..(MaxChunks - 1)

\* the elements of S in ascending order
RECURSIVE Ascending(_)
Ascending(S) ==
    IF S = {} THEN <<>>
    ELSE LET m == CHOOSE x \in S : \A y \in S : x <= y
         IN  <<m>> \o Ascending(S \ {m})

\* callLLMChunk is invoked for every index of S, each up to its first await
StartCalls(S) ==
    LET c == LoopTop(1)
    IN  /\ call' = [k \in Idx |-> IF k \in S THEN c ELSE call[k]]
        /\ settled' = settled \o (IF c.pc = "returned" THEN Ascending(S) ELSE <<>>)

\* call k moves to state c
MoveCall(k, c) ==
    /\ call' = [call EXCEPT ![k] = c]
    /\ settled' = IF c.pc = "returned" THEN Append(settled, k) ELSE settled

\* the fetch of call k is answered by r
FetchRespondsAt(k, r) ==
    /\ call[k].pc = "fetching"
    /\ MoveCall(k, OnResponse(r, call[k], k, totalChunks))

\* the backoff timer of call k fires: next iteration of the loop
BackoffElapsedAt(k) ==
    /\ call[k].pc = "backoff"
    /\ MoveCall(k, LoopTop(call[k].attempt + 1))

---------------------------------------------------------------------------
(* processChunksIntelligently, callLLM, combineLLMResponses *)

ReviewPrompt == <<"a">>

\* Math.ceil((prompt + diff).length / 4)
estimateTokenCount(prompt, d) ==
    (StringLength(prompt \o d) + 3) \div 4

combineLLMResponses(responses) ==
    IF Len(responses) = 0 THEN <<"No review results available.">>
    ELSE IF Len(responses) = 1 THEN responses[1]
    ELSE Concat(responses)

\* a failed chunk leaves a note asking not to merge
ResponseOfFailuresNoted(rs) ==
    IF \A k \in 1..Len(rs) : rs[k] = None THEN None
    ELSE Some(combineLLMResponses(
                  [k \in 1..Len(rs) |->
                      IF rs[k] = None THEN <<"do not merge">> ELSE rs[k][1]]))

\* results.filter(result => result !== null) and what callLLM returns
ResponseOf(rs) ==
    LET validResults == SelectSeq(rs, LAMBDA x : x # None)
    IN  IF Len(validResults) = 0 THEN None
        ELSE Some(combineLLMResponses(
                      [k \in 1..Len(validResults) |-> validResults[k][1]]))

\* CONFIG.MAX_CONCURRENT_REQUESTS, copied to this.maxConcurrentRequests
MAX_CONCURRENT_REQUESTS == 1

\* Math.min(2, chunks.length) on the batched path
maxConcurrent == 2

BatchOf(from) == {k \in Idx : from <= k /\ k < from + maxConcurrent /\ k < Len(chunks)}

\* the batch results in the order the calls settled
batchResultsBySettling(from) ==
    LET order == SelectSeq(settled, LAMBDA k : k \in BatchOf(from))
    IN  [k \in 1..Len(order) |-> call[order[k]].ret]

\* await Promise.all(batchPromises): the values by position in the batch
batchResults(from) ==
    [k \in 1..Cardinality(BatchOf(from)) |-> call[from + k - 1].ret]

---------------------------------------------------------------------------
(* checkMergeDecision, checkMergeDecisionLegacy *)

\* A response text is a sequence of tokens: a fence, a newline "n", a
\* serialised JSON document, or a run of prose written as the prose itself.

\* the opening fence of a JSON block: three backticks, written <fence>,
\* and the word json
JsonFence == "<fence>json"

Fence == "<fence>"

\* the token holds three backticks, which end a lazy match
isFence(t) == t \in {JsonFence, Fence}

\* one element of reviewData.issues; confidence in hundredths, a missing
\* severity_proposed is <<>>
Issue(id, severity, confidence) ==
    [id |-> id, severity_proposed |-> severity, confidence |-> confidence]

\* the parsed object of one JSON block; a missing field is <<>>
ReviewData(recommendation, issues, metrics) ==
    [final_recommendation |-> recommendation, issues |-> issues, metrics |-> metrics]

Metrics(n) == Some([critical_count |-> n])

\* the JSON objects a reply can hold
JsonDocuments ==
    { ReviewData(Some("do_not_merge"), None, None),
      ReviewData(Some("safe_to_merge"), Some(<<Issue("SEC-01", Some("critical"), 60)>>), Metrics(0)),
      ReviewData(None, Some(<<Issue("SEC-01", Some("critical"), 59)>>), None),
      ReviewData(None, None, Metrics(1)),
      ReviewData(Some("safe_to_merge"), Some(<<Issue("PERF-01", Some("suggestion"), 90)>>), Metrics(0)),
      ReviewData(None, Some(<<Issue("MNT-01", None, 90)>>), Metrics(1)) }

\* JSON.stringify
JSONstringify(d) == ToString(d)

\* JSON.parse: the object the text serialises, <<>> when it throws
JSONparse(str) ==
    LET ds == {d \in JsonDocuments : Len(str) = 1 /\ JSONstringify(d) = str[1]}
    IN  IF ds = {} THEN None ELSE Some(CHOOSE d \in ds : TRUE)

\* the leading and trailing whitespace a \s* takes
RECURSIVE TrimStart(_)
TrimStart(str) ==
    IF str # <<>> /\ Head(str) = "n" THEN TrimStart(Tail(str)) ELSE str

RECURSIVE TrimEnd(_)
TrimEnd(str) ==
    IF str # <<>> /\ str[Len(str)] = "n"
    THEN TrimEnd(SubSeq(str, 1, Len(str) - 1)) ELSE str

\* llmResponse.match(...) with the lazy fenced-block pattern, followed by
\* the two replace calls: the text between each opening fence and the next
\* three backticks, trimmed
RECURSIVE jsonMatchesFrom(_, _)
jsonMatchesFrom(text, from) ==
    LET opens == {a \in from..Len(text) : text[a] = JsonFence}
    IN  IF opens = {} THEN <<>>
        ELSE LET a == CHOOSE x \in opens : \A y \in opens : x <= y
                 closes == {b \in (a + 1)..Len(text) : isFence(text[b])}
             IN  IF closes = {} THEN <<>>
                 ELSE LET b == CHOOSE x \in closes : \A y \in closes : x <= y
                      IN  <<TrimEnd(TrimStart(SubSeq(text, a + 1, b - 1)))>>
                              \o jsonMatchesFrom(text, b + 1)

jsonMatches(text) == jsonMatchesFrom(text, 1)

\* only the literal recommendation 'block' blocks
isBlockingRecommendationOther(recommendation) == recommendation = Some("block")

\* reviewData.final_recommendation === 'do_not_merge'
isBlockingRecommendation(recommendation) == recommendation = Some("do_not_merge")

hasBlockingRecommendation(matches) ==
    \E k \in 1..Len(matches) :
        /\ JSONparse(matches[k]) # None
        /\ isBlockingRecommendation(JSONparse(matches[k])[1].final_recommendation)

\* { ...issue, chunk: index + 1, originalId: issue.id } for the issues of
\* match number index + 1
issuesWithContext(matches, k) ==
    LET parsed == JSONparse(matches[k])
    IN  IF parsed = None \/ parsed[1].issues = None THEN <<>>
        ELSE [n \in 1..Len(parsed[1].issues[1]) |->
                 [issue |-> parsed[1].issues[1][n],
                  chunk |-> k,
                  originalId |-> parsed[1].issues[1][n].id]]

allIssues(matches) ==
    Concat([k \in 1..Len(matches) |-> issuesWithContext(matches, k)])

\* totalCriticalCount += reviewData.metrics.critical_count || 0
RECURSIVE totalCriticalCountUpTo(_, _)
totalCriticalCountUpTo(matches, k) ==
    IF k = 0 THEN 0
    ELSE LET parsed == JSONparse(matches[k])
         IN  totalCriticalCountUpTo(matches, k - 1)
               + (IF parsed = None \/ parsed[1].metrics = None THEN 0
                  ELSE parsed[1].metrics[1].critical_count)

totalCriticalCount(matches) == totalCriticalCountUpTo(matches, Len(matches))

\* the threshold itself does not count
highConfidenceStrict(confidence) == confidence > 60

\* issue.confidence >= 0.6, in hundredths
highConfidence(confidence) == confidence >= 60

criticalIssues(issues) ==
    SelectSeq(issues, LAMBDA x : /\ x.issue.severity_proposed = Some("critical")
                                 /\ highConfidence(x.issue.confidence))

\* issue.severity_proposed.toUpperCase() throws a TypeError
summaryThrows(issues) ==
    \E n \in 1..Len(issues) : issues[n].issue.severity_proposed = None

\* CONFIG.APPROVAL_PHRASES; the entry with the check mark holds 'safe to
\* merge' and so adds nothing to the search
APPROVAL_PHRASES ==
    {"safe to merge", "merge approved", "no critical issues", "safe to commit",
     "approved for merge", "proceed with merge", "merge is safe"}

\* CONFIG.BLOCKING_PHRASES; the entry with the cross mark holds 'do not merge'
BLOCKING_PHRASES ==
    {"do not merge", "block merge", "merge blocked", "not safe to merge",
     "critical issues found", "must be fixed", "blockers found"}

\* CONFIG.CRITICAL_ISSUES
CRITICAL_ISSUES ==
    {"security vulnerability", "security issue", "critical bug", "memory leak",
     "race condition", "xss vulnerability", "authentication issue",
     "authorization problem"}

\* the search is case-sensitive
toLowerCaseNot(t) == t

\* String.prototype.toLowerCase on one token
toLowerCase(t) ==
    CASE t = "Safe To Merge" -> "safe to merge"
      [] t = "DO NOT MERGE" -> "do not merge"
      [] t = "Memory Leak" -> "memory leak"
      [] t = "RACE CONDITION" -> "race condition"
      [] OTHER -> t

\* phrase occurs inside the prose t
occursIn(phrase, t) ==
    \/ t = phrase
    \/ <<phrase, t>> \in {<<"safe to merge", "not safe to merge">>,
                          <<"no critical issues", "no critical issues found">>,
                          <<"critical issues found", "no critical issues found">>}

\* response.includes(phrase)
includes(response, phrase) ==
    \E k \in 1..Len(response) : occursIn(phrase, response[k])

\* the blocking phrases are searched before the approval phrases
checkMergeDecisionLegacyBlockingFirst(llmResponse_) ==
    LET response == [k \in 1..Len(llmResponse_) |-> toLowerCase(llmResponse_[k])]
        criticalIssueCount ==
            Cardinality({issue \in CRITICAL_ISSUES : includes(response, issue)})
    IN  IF \E phrase \in BLOCKING_PHRASES : includes(response, phrase) THEN TRUE
        ELSE IF \E phrase \in APPROVAL_PHRASES : includes(response, phrase) THEN FALSE
        ELSE criticalIssueCount >= 2

checkMergeDecisionLegacy(llmResponse_) ==
    LET response == [k \in 1..Len(llmResponse_) |-> toLowerCase(llmResponse_[k])]
        criticalIssueCount ==
            Cardinality({issue \in CRITICAL_ISSUES : includes(response, issue)})
    IN  IF \E phrase \in APPROVAL_PHRASES : includes(response, phrase) THEN FALSE
        ELSE IF \E phrase \in BLOCKING_PHRASES : includes(response, phrase) THEN TRUE
        ELSE criticalIssueCount >= 2

\* TRUE to block the merge
checkMergeDecision(llmResponse_) ==
    LET matches == jsonMatches(llmResponse_)
        issues == allIssues(matches)
    IN  IF Len(matches) > 0
        THEN IF hasBlockingRecommendation(matches) THEN TRUE
             ELSE IF Len(issues) > 0 /\ Len(criticalIssues(issues)) > 0 THEN TRUE
             ELSE IF Len(issues) > 0 /\ summaryThrows(issues)
             THEN checkMergeDecisionLegacy(llmResponse_)
             ELSE totalCriticalCount(matches) > 0
        ELSE checkMergeDecisionLegacy(llmResponse_)

\* logLLMResponse: false for null and for the empty string
logLLMResponse(response) == response # None /\ response[1] # <<>>

---------------------------------------------------------------------------
(* Inputs *)

Alphabet == {"M", "a", "u", "K"}

SeqsUpTo(S, n) == UNION {[1..k -> S] : k \in 0..n}

\* what getFileDiff returns for a changed file ('' when git fails)
FileDiffs == {<<>>, <<"a">>, <<"u">>, <<"K", "K">>, <<"a", "M", "a">>}

ChangedFiles == [path : {<<"a">>}, fileDiff : FileDiffs]

FullDiffs == {getFullDiff(fs) : fs \in SeqsUpTo(ChangedFiles, MaxFiles)}

DirectDiffs == SeqsUpTo(Alphabet, MaxDiffLen)

SizeArgs ==
    {None, Some(-5), Some(0)}
    \cup {Some(k) : k \in 1..MaxChunkBytes}
    \cup {Some(RunLength + 10), Some(DEFAULT_CHUNK_SIZE), Some(2 * RunLength + 20)}

\* a fenced JSON block around content
Block(content) == <<JsonFence, "n", content, "n", Fence>>

\* what a reply is written from: blocks holding a JSON object, a block
\* holding broken JSON, a block holding prose, an opening fence never
\* closed, and prose
Pieces ==
    {Block(JSONstringify(d)) : d \in JsonDocuments}
    \cup {Block("{"), Block("do not merge"), <<JsonFence>>}
    \cup {<<"a">>, <<"Safe To Merge">>, <<"do not merge">>, <<"memory leak">>,
          <<"RACE CONDITION">>, <<"not safe to merge">>}

\* the reply of the current chunk ends here
NextChunk == <<"next">>

\* the call for a chunk returned null
FailedChunk == <<"failed">>

\* the call for a chunk met a token-limit 400
TokenLimitChunk == <<"tokenLimit">>

flush(current) == IF current = <<>> THEN <<>> ELSE <<Some(current)>>

\* the results array a stream of pieces and chunk ends stands for
RECURSIVE ResultsFrom(_, _, _)
ResultsFrom(stream, k, current) ==
    IF k > Len(stream) THEN flush(current)
    ELSE IF stream[k] = FailedChunk
    THEN flush(current) \o <<None>> \o ResultsFrom(stream, k + 1, <<>>)
    ELSE IF stream[k] = TokenLimitChunk
    THEN flush(current) \o <<Some(TokenLimitChunk)>> \o ResultsFrom(stream, k + 1, <<>>)
    ELSE IF stream[k] = NextChunk
    THEN flush(current) \o ResultsFrom(stream, k + 1, <<>>)
    ELSE ResultsFrom(stream, k + 1, current \o stream[k])

\* the results arrays processChunksIntelligently can hand to callLLM
\* each token-limit chunk holds the placeholder written for its position
withPlaceholders(rs) ==
    [k \in 1..Len(rs) |->
        IF rs[k] = Some(TokenLimitChunk)
        THEN Some(handleTokenLimitExceeded(k - 1, Len(rs))) ELSE rs[k]]

ReviewResults ==
    {withPlaceholders(ResultsFrom(stream, 1, <<>>)) :
        stream \in SeqsUpTo(Pieces \cup {NextChunk, FailedChunk, TokenLimitChunk},
                            MaxPieces)}
    \ {<<>>}

---------------------------------------------------------------------------
(* The chunker applied to every input *)

NoCalls == [k \in Idx |-> Idle]

InitSplit ==
    /\ pc = "split"
    /\ diff \in DirectDiffs \cup FullDiffs
    /\ maxChunkSize \in SizeArgs
    /\ chunks = <<>>
    /\ provider = "claude" /\ apiKeySet = TRUE /\ moduleFound = TRUE
    /\ i = 0 /\ totalChunks = 0
    /\ call = NoCalls /\ results = <<>> /\ settled = <<>>
    /\ llmResponse = None /\ history = <<>>
    /\ shouldBlockMerge = None /\ failed = FALSE

SplitCall ==
    /\ pc = "split"
    /\ chunks' = splitDiffIntoChunks(diff, maxChunkSize)
    /\ pc' = "split_done"
    /\ UNCHANGED <<diff, maxChunkSize, envVars, callVars, runVars, history, reviewVars>>

NextSplit == SplitCall

SpecSplit == InitSplit /\ [][NextSplit]_vars

---------------------------------------------------------------------------
(* One callLLMChunk(prompt, diffChunk, chunkIndex, totalChunks) *)

Providers == {"claude", "openai", "gemini"}

\* (chunkIndex, totalChunks)
CallArgs == {<<0, 1>>, <<0, 2>>, <<1, 2>>, <<MaxChunks - 1, MaxChunks>>}

InitCall ==
    /\ pc = "call"
    /\ diff = <<>> /\ maxChunkSize = None /\ chunks = <<>>
    /\ provider \in Providers
    /\ apiKeySet \in BOOLEAN
    /\ moduleFound \in BOOLEAN
    /\ \E args \in CallArgs : i = args[1] /\ totalChunks = args[2]
    /\ call = NoCalls /\ results = <<>> /\ settled = <<>>
    /\ llmResponse = None /\ history = <<>>
    /\ shouldBlockMerge = None /\ failed = FALSE

CallInvoke ==
    /\ pc = "call"
    /\ call[i].pc = "idle"
    /\ StartCalls({i})
    /\ UNCHANGED <<pc, splitVars, envVars, runVars, history, reviewVars>>

CallFetchResponds ==
    /\ pc = "call"
    /\ \E r \in Responses(i) :
          /\ FetchRespondsAt(i, r)
          /\ history' = Append(history, r)
    /\ UNCHANGED <<pc, splitVars, envVars, runVars, reviewVars>>

CallBackoffElapsed ==
    /\ pc = "call"
    /\ BackoffElapsedAt(i)
    /\ UNCHANGED <<pc, splitVars, envVars, runVars, history, reviewVars>>

NextCall == CallInvoke \/ CallFetchResponds \/ CallBackoffElapsed

SpecCall == InitCall /\ [][NextCall]_vars

---------------------------------------------------------------------------
(* callLLM(reviewPrompt, fullDiff) *)

File(d) == [path |-> <<"a">>, fileDiff |-> d]

\* n changed files of 200KB each: n chunks under the default chunk size
RunFileLists ==
    {[k \in 1..n |-> File(<<"K">>)] : n \in 1..MaxChunks}
    \cup {<<File(<<"a">>)>>, <<File(<<"K", "K">>)>>}

InitRun ==
    /\ pc = "callLLM"
    /\ diff \in {getFullDiff(fs) : fs \in RunFileLists}
    /\ maxChunkSize = None /\ chunks = <<>>
    /\ provider \in Providers
    /\ apiKeySet \in BOOLEAN
    /\ moduleFound \in BOOLEAN
    /\ i = 0 /\ totalChunks = 0
    /\ call = NoCalls /\ results = <<>> /\ settled = <<>>
    /\ llmResponse = None /\ history = <<>>
    /\ shouldBlockMerge = None /\ failed = FALSE

\* callLLM up to its first await
CallLLM ==
    /\ pc = "callLLM"
    /\ IF getApiKey = None
       THEN /\ pc' = "done"
            /\ UNCHANGED <<chunks, callVars, runVars>>
       ELSE IF /\ ByteLength(diff) <= DEFAULT_CHUNK_SIZE
               /\ estimateTokenCount(ReviewPrompt, diff) < 150000
       THEN /\ pc' = "single_await"
            /\ totalChunks' = 1
            /\ StartCalls({0})
            /\ UNCHANGED <<chunks, i, results, llmResponse>>
       ELSE LET cs == splitDiffIntoChunks(diff, None)
            IN  IF Len(cs) = 0
                THEN /\ pc' = "done"
                     /\ UNCHANGED <<chunks, callVars, runVars>>
                ELSE /\ chunks' = cs
                     /\ totalChunks' = Len(cs)
                     /\ pc' = IF Len(cs) <= 3 THEN "seq_await" ELSE "batch_await"
                     /\ StartCalls(IF Len(cs) <= 3 THEN {0}
                                   ELSE {k \in Idx : k < maxConcurrent /\ k < Len(cs)})
                     /\ UNCHANGED <<i, results, llmResponse>>
    /\ UNCHANGED <<diff, maxChunkSize, envVars, history, reviewVars>>

Awaiting == pc \in {"single_await", "seq_await", "batch_await"}

RunFetchResponds ==
    /\ Awaiting
    /\ \E k \in Idx : \E r \in Responses(k) : FetchRespondsAt(k, r)
    /\ UNCHANGED <<pc, splitVars, envVars, runVars, history, reviewVars>>

RunBackoffElapsed ==
    /\ Awaiting
    /\ \E k \in Idx : BackoffElapsedAt(k)
    /\ UNCHANGED <<pc, splitVars, envVars, runVars, history, reviewVars>>

\* return await this.callLLMChunk(prompt, diff, 0, 1)
SingleSettle ==
    /\ pc = "single_await"
    /\ call[0].pc = "returned"
    /\ llmResponse' = call[0].ret
    /\ pc' = "done"
    /\ UNCHANGED <<splitVars, envVars, callVars, i, totalChunks, results, history, reviewVars>>

\* the sequential loop starts the next call without the delay
SeqSettleNoDelay ==
    /\ pc = "seq_await"
    /\ call[i].pc = "returned"
    /\ results' = Append(results, call[i].ret)
    /\ IF i + 1 < Len(chunks)
       THEN /\ pc' = "seq_await" /\ i' = i + 1
            /\ StartCalls({i + 1})
            /\ UNCHANGED llmResponse
       ELSE /\ pc' = "done" /\ llmResponse' = ResponseOf(results')
            /\ UNCHANGED <<callVars, i>>
    /\ UNCHANGED <<splitVars, envVars, totalChunks, history, reviewVars>>

\* the sequential loop gives up at the first chunk that failed
SeqSettleAbortOnFailure ==
    /\ pc = "seq_await"
    /\ call[i].pc = "returned"
    /\ results' = Append(results, call[i].ret)
    /\ IF i + 1 < Len(chunks) /\ call[i].ret # None
       THEN pc' = "seq_delay" /\ UNCHANGED llmResponse
       ELSE pc' = "done" /\ llmResponse' = ResponseOf(results')
    /\ UNCHANGED <<splitVars, envVars, callVars, i, totalChunks, history, reviewVars>>

\* the sequential loop resumes after await callLLMChunk(..., i, ...)
SeqSettle ==
    /\ pc = "seq_await"
    /\ call[i].pc = "returned"
    /\ results' = Append(results, call[i].ret)
    /\ IF i + 1 < Len(chunks)
       THEN pc' = "seq_delay" /\ UNCHANGED llmResponse
       ELSE pc' = "done" /\ llmResponse' = ResponseOf(results')
    /\ UNCHANGED <<splitVars, envVars, callVars, i, totalChunks, history, reviewVars>>

\* setTimeout(resolve, this.batchDelayMs) fires, next iteration
SeqDelayElapsed ==
    /\ pc = "seq_delay"
    /\ i' = i + 1
    /\ StartCalls({i + 1})
    /\ pc' = "seq_await"
    /\ UNCHANGED <<splitVars, envVars, totalChunks, results, llmResponse, history, reviewVars>>

\* await Promise.all(batchPromises) resumes
BatchJoin ==
    /\ pc = "batch_await"
    /\ \A k \in BatchOf(i) : call[k].pc = "returned"
    /\ results' = results \o batchResults(i)
    /\ IF i + maxConcurrent < Len(chunks)
       THEN pc' = "batch_delay" /\ UNCHANGED llmResponse
       ELSE pc' = "done" /\ llmResponse' = ResponseOf(results')
    /\ UNCHANGED <<splitVars, envVars, callVars, i, totalChunks, history, reviewVars>>

BatchDelayElapsed ==
    /\ pc = "batch_delay"
    /\ i' = i + maxConcurrent
    /\ StartCalls(BatchOf(i + maxConcurrent))
    /\ pc' = "batch_await"
    /\ UNCHANGED <<splitVars, envVars, totalChunks, results, llmResponse, history, reviewVars>>

\* runReview after await callLLM: checkMergeDecision, generatePRComment and
\* the call of addPRComment, all skipped when there is no response
RunReviewDecide ==
    /\ pc = "done"
    /\ IF logLLMResponse(llmResponse)
       THEN /\ shouldBlockMerge' = Some(checkMergeDecision(llmResponse[1]))
            /\ pc' = "comment_await"
       ELSE /\ pc' = "finished"
            /\ UNCHANGED shouldBlockMerge
    /\ UNCHANGED <<splitVars, envVars, callVars, runVars, history, failed>>

\* the failure is signalled whatever the decision
CommentSettledAlwaysFails ==
    /\ pc = "comment_await"
    /\ failed' = TRUE
    /\ pc' = "finished"
    /\ UNCHANGED <<splitVars, envVars, callVars, runVars, history, shouldBlockMerge>>

\* addPRComment settles (it catches its own errors), then logFinalDecision
\* calls core.setFailed when the merge is blocked
CommentSettled ==
    /\ pc = "comment_await"
    /\ failed' = shouldBlockMerge[1]
    /\ pc' = "finished"
    /\ UNCHANGED <<splitVars, envVars, callVars, runVars, history, shouldBlockMerge>>

Next ==
    \/ CallLLM
    \/ RunFetchResponds
    \/ RunBackoffElapsed
    \/ SingleSettle
    \/ SeqSettle
    \/ SeqDelayElapsed
    \/ BatchJoin
    \/ BatchDelayElapsed
    \/ RunReviewDecide
    \/ CommentSettled

Init == InitRun

Spec == Init /\ [][Next]_vars

---------------------------------------------------------------------------
(* The end of callLLM and the decision of runReview on every results array *)

InitDecide ==
    /\ pc = "combine"
    /\ results \in ReviewResults
    /\ diff = <<>> /\ maxChunkSize = None
    /\ chunks = [k \in 1..Len(results) |-> <<Marker, "a">>]
    /\ provider = "claude" /\ apiKeySet = TRUE /\ moduleFound = TRUE
    /\ i = 0 /\ totalChunks = Len(results)
    /\ call = NoCalls /\ settled = <<>>
    /\ llmResponse = None /\ history = <<>>
    /\ shouldBlockMerge = None /\ failed = FALSE

\* callLLM from the filter of the null results on
Combine ==
    /\ pc = "combine"
    /\ llmResponse' = ResponseOf(results)
    /\ pc' = "done"
    /\ UNCHANGED <<splitVars, envVars, callVars, i, totalChunks, results, history, reviewVars>>

NextDecide == Combine \/ RunReviewDecide \/ CommentSettled

SpecDecide == InitDecide /\ [][NextDecide]_vars

\* every network call and every timer eventually completes, and the event
\* loop resumes every continuation whose promise is settled
FairSpec ==
    /\ Spec
    /\ WF_vars(RunFetchResponds)
    /\ WF_vars(RunBackoffElapsed)
    /\ WF_vars(SingleSettle \/ SeqSettle \/ BatchJoin)
    /\ WF_vars(SeqDelayElapsed \/ BatchDelayElapsed)

---------------------------------------------------------------------------
(* Properties of splitDiffIntoChunks *)

SplitDone == pc = "split_done"

PositiveSize == maxChunkSize # None /\ maxChunkSize[1] > 0

\* the file sections of every chunk, in chunk order
SectionsOfChunks(cs) == Concat([k \in 1..Len(cs) |-> fileSectionsOf(cs[k])])

\* C1: for every bundle and every positive maxChunkBytes the chunks,
\* concatenated in order, are the input, and the file sections met in the
\* chunks are the file sections of the input, once each and in input order.
C1_ChunkCompleteness ==
    (SplitDone /\ PositiveSize) =>
        /\ Concat(chunks) = diff
        /\ SectionsOfChunks(chunks) = fileSectionsOf(diff)

\* a split into several chunks, one of them grouping several sections
C1_Witness ==
    /\ SplitDone /\ PositiveSize
    /\ Len(chunks) >= 2
    /\ \E k \in 1..Len(chunks) : Len(fileSectionsOf(chunks[k])) >= 2

\* C2: with a positive maxChunkBytes every chunk is at most maxChunkBytes
\* UTF-8 bytes long, except a chunk made of one single section that is
\* itself longer than maxChunkBytes.
C2_ChunkSizeBound ==
    (SplitDone /\ PositiveSize) =>
        \A k \in 1..Len(chunks) :
            \/ ByteLength(chunks[k]) <= maxChunkSize[1]
            \/ /\ Len(fileSectionsOf(chunks[k])) = 1
               /\ chunks[k] \in {fileSectionsOf(diff)[j] :
                                    j \in 1..Len(fileSectionsOf(diff))}

\* an oversized single-section chunk next to a full multi-section chunk
\* holding a multi-byte character
C2_Witness ==
    /\ SplitDone /\ PositiveSize
    /\ \E k \in 1..Len(chunks) : ByteLength(chunks[k]) > maxChunkSize[1]
    /\ \E k \in 1..Len(chunks) :
          /\ Len(fileSectionsOf(chunks[k])) >= 2
          /\ ByteLength(chunks[k]) = maxChunkSize[1]
          /\ \E j \in 1..Len(chunks[k]) : chunks[k][j] = "u"

\* C3: for a non-empty bundle, maxChunkBytes 0 and maxChunkBytes -5 both
\* give exactly one chunk, the whole bundle.
C3_ZeroOrNegativeSizeGivesOneChunk ==
    (SplitDone /\ diff # <<>> /\ maxChunkSize \in {Some(0), Some(-5)}) =>
        chunks = <<diff>>

\* the file lists getFullDiff builds the diff from
BuiltFrom(d) == {fs \in SeqsUpTo(ChangedFiles, MaxFiles) : getFullDiff(fs) = d}

\* s occurs in c as a contiguous run
Within(s, c) ==
    \E from \in 1..(Len(c) - Len(s) + 1) : SubSeq(c, from, from + Len(s) - 1) = s

\* the section of a file in the full diff, from its marker on
FileSection(file) == Tail(diffWithHeader(file))

\* C4: for a diff built by getFullDiff and a positive maxChunkBytes every
\* chunk holds at least one section beginning with the file-boundary marker
\* and every file's section lies whole inside one chunk.
C4_ChunkWellFormed ==
    (SplitDone /\ PositiveSize /\ diff \in FullDiffs) =>
        /\ \A k \in 1..Len(chunks) :
              \E j \in 1..Len(chunks[k]) : chunks[k][j] = Marker
        /\ \A fs \in BuiltFrom(diff) :
              \A f \in 1..Len(fs) :
                  fs[f].fileDiff # <<>> =>
                      \E k \in 1..Len(chunks) : Within(FileSection(fs[f]), chunks[k])

\* C5: an empty bundle gives an empty chunk list, and whatever the bundle
\* and the maxChunkBytes argument (positive, zero, negative, missing) no
\* returned chunk is empty.
C5_NoEmptyChunk ==
    SplitDone =>
        /\ (diff = <<>> => chunks = <<>>)
        /\ \A k \in 1..Len(chunks) :
              StringLength(chunks[k]) > 0 /\ ByteLength(chunks[k]) > 0

\* a first section that alone exceeds the chunk size, met with an empty buffer
C5_Witness ==
    /\ SplitDone /\ PositiveSize
    /\ diff # <<>>
    /\ ByteLength(fileSectionsOf(diff)[1]) > maxChunkSize[1]
    /\ Len(chunks) >= 2

---------------------------------------------------------------------------
(* Properties of processChunksIntelligently and callLLM *)

\* what callLLMChunk can return for chunk idx
OutcomesOf(idx) ==
    {None, Some(ReplyText(idx)), Some(handleTokenLimitExceeded(idx, totalChunks))}

\* the successful outcomes in ascending chunk order, concatenated
CombinedInOrder ==
    LET ok == Ascending({k \in Idx : k < Len(chunks) /\ call[k].ret # None})
    IN  IF ok = <<>> THEN None
        ELSE Some(Concat([j \in 1..Len(ok) |-> call[ok[j]].ret[1]]))

\* C6: on the sequential and on the batched path the i-th entry of results
\* is what the call for the i-th chunk returned, whatever the order in which
\* the calls of a batch settled; at the end there is one entry per chunk and
\* the combined response is the successful outcomes in ascending chunk order.
C6_OrderPreservation ==
    /\ \A k \in 1..Len(results) :
          /\ call[k - 1].pc = "returned"
          /\ results[k] = call[k - 1].ret
          /\ results[k] \in OutcomesOf(k - 1)
    /\ (pc = "done" /\ chunks # <<>>) =>
          /\ Len(results) = Len(chunks)
          /\ llmResponse = CombinedInOrder

\* a batched run in which a later chunk settled before an earlier one and
\* both successes and a failure were collected
C6_Witness ==
    /\ pc = "done"
    /\ Len(chunks) > 3
    /\ \E a, b \in 1..Len(settled) : a < b /\ settled[a] > settled[b]
    /\ \E k \in 1..Len(results) : results[k] = None
    /\ Cardinality({k \in 1..Len(results) : results[k] # None}) >= 2

---------------------------------------------------------------------------
(* Properties of callLLMChunk *)

\* network attempts made by the call: answered ones and the one in flight
Attempts == Len(history) + (IF call[i].pc = "fetching" THEN 1 ELSE 0)

\* C7: a call makes at most maxRetries network attempts whatever the
\* responses, and a call whose every attempt is answered 503 ends only after
\* exactly maxRetries attempts, returning null.
C7_RetryBound ==
    /\ Attempts <= maxRetries
    /\ ( /\ call[i].pc = "returned"
         /\ history # <<>>
         /\ \A k \in 1..Len(history) : history[k].status = 503 )
       => (Len(history) = maxRetries /\ call[i].ret = None)

C7_Witness ==
    /\ call[i].pc = "returned"
    /\ Len(history) = maxRetries
    /\ \A k \in 1..Len(history) : history[k].status = 503
    /\ call[i].ret = None

TokenLimit400(r) == r.kind = "http" /\ r.status = 400 /\ r.mentionsToken

\* C8: a 400 whose error mentions a token limit ends the call at once, on
\* whichever attempt it comes: it is the last response of the call, no fetch
\* follows it, and the call returns the token-limit placeholder.
C8_TokenLimitNotRetried ==
    \A k \in 1..Len(history) :
        TokenLimit400(history[k]) =>
            /\ k = Len(history)
            /\ call[i].pc = "returned"
            /\ call[i].ret = Some(handleTokenLimitExceeded(i, totalChunks))

\* the token-limit 400 comes on a retry
C8_Witness ==
    /\ Len(history) >= 2
    /\ TokenLimit400(history[Len(history)])
    /\ call[i].pc = "returned"

Other4xx(r) ==
    /\ r.kind = "http"
    /\ r.status >= 400 /\ r.status <= 499
    /\ r.status # 429
    /\ ~TokenLimit400(r)

\* C9: a 4xx other than 429 and the token-limit 400 is terminal: it is the
\* last response of the call, no fetch follows it, and the call returns null.
C9_Other4xxNotRetried ==
    \A k \in 1..Len(history) :
        Other4xx(history[k]) =>
            /\ k = Len(history)
            /\ call[i].pc = "returned"
            /\ call[i].ret = None

\* the array the provider's text is read from, <<>> when absent
ProviderField(b) == IF provider = "claude" THEN b.content ELSE b.choices

\* a 2xx whose body has the provider's non-empty array with a non-blank
\* string as first text
GoodReply(r) ==
    /\ r.kind = "http" /\ r.status = 200
    /\ ProviderField(r.body) # None
    /\ Len(ProviderField(r.body)[1]) > 0
    /\ ProviderField(r.body)[1][1] # None
    /\ \E j \in 1..Len(ProviderField(r.body)[1][1][1]) :
          ProviderField(r.body)[1][1][1][j] # "n"

TransientFailure(r) ==
    r.kind = "timeout" \/ (r.kind = "http" /\ r.status = 200 /\ ~GoodReply(r))

\* C10: a timeout, a 2xx body failing the provider's structure validation
\* and an empty or non-string text are retried with the exponential backoff
\* baseDelay * 2^(attempt-1) while attempts remain and end the call with null
\* on the last attempt; the call returns a text other than the placeholder
\* only when its last response is a valid 2xx, and then that response's text.
C10_TransientRetriedNeverSuccess ==
    /\ \A k \in 1..Len(history) :
          TransientFailure(history[k]) =>
              IF k < maxRetries
              THEN \/ k < Len(history)
                   \/ /\ call[i].pc = "backoff"
                      /\ call[i].attempt = k
                      /\ call[i].delay = baseDelay * Pow2(k - 1)
                   \/ /\ call[i].pc = "fetching"
                      /\ call[i].attempt = k + 1
              ELSE call[i].pc = "returned" /\ call[i].ret = None
    /\ ( /\ call[i].pc = "returned"
         /\ call[i].ret # None
         /\ call[i].ret # Some(handleTokenLimitExceeded(i, totalChunks)) )
       => /\ history # <<>>
          /\ GoodReply(history[Len(history)])
          /\ call[i].ret = ProviderField(history[Len(history)].body)[1][1]

\* a timeout, then an invalid 2xx body, then a valid reply on the last attempt
C10_Witness ==
    /\ Len(history) = maxRetries
    /\ history[1].kind = "timeout"
    /\ history[2].status = 200 /\ ~GoodReply(history[2])
    /\ GoodReply(history[3])
    /\ call[i].pc = "returned"
    /\ call[i].ret # None

---------------------------------------------------------------------------
(* Properties of a run under failures *)

\* some chunk of the run exhausted its retries
SomeChunkFailed ==
    \E k \in Idx : k < Len(chunks) /\ call[k].pc = "returned" /\ call[k].ret = None

\* callLLM has returned to runReview
CallLLMReturned == pc \in {"done", "comment_await", "finished"}

\* C11: a chunk that exhausts its retries does not abort the run: every
\* remaining chunk is still dispatched, processChunksIntelligently eventually
\* returns one entry per chunk, null for each failed chunk, and callLLM
\* combines the chunks that succeeded, provided every network call and
\* every timer eventually completes.
C11_ChunkFailuresDoNotAbort ==
    /\ [](  (pc = "done" /\ chunks # <<>>) =>
              /\ Len(results) = Len(chunks)
              /\ \A k \in 1..Len(chunks) :
                    /\ call[k - 1].pc = "returned"
                    /\ (results[k] = None) <=> (call[k - 1].ret = None)
              /\ llmResponse = CombinedInOrder )
    /\ SomeChunkFailed ~> (CallLLMReturned /\ Len(results) = Len(chunks))

\* a sequential run whose first chunk failed and whose last chunk succeeded
C11_Witness ==
    /\ pc = "done"
    /\ Len(chunks) \in 2..3
    /\ results[1] = None
    /\ results[Len(chunks)] # None
    /\ llmResponse = Some(results[Len(chunks)][1])

\* the selected provider has no usable key
NoUsableKey == ~apiKeySet \/ provider \notin SupportedProviders

\* C12: when the key of the selected provider is missing or the provider is
\* unsupported, callLLM returns null without any fetch: no chunk is cut or
\* dispatched, no call starts, no backoff is waited for.
C12_NoKeyNoNetworkCall ==
    NoUsableKey =>
        /\ pc \in {"callLLM", "done", "finished"}
        /\ \A k \in Idx : call[k] = Idle
        /\ chunks = <<>> /\ results = <<>> /\ settled = <<>>
        /\ llmResponse = None

\* a run over a diff that would be chunked, returned with an unsupported
\* provider
C12_Witness ==
    /\ pc = "done"
    /\ provider \notin SupportedProviders
    /\ ByteLength(diff) > DEFAULT_CHUNK_SIZE
    /\ llmResponse = None

\* C13: every run with changed files ends with a verdict, the runs in
\* which every chunk's call fails included (the runs aborted for want of a
\* usable key are left aside).
C13_EveryRunEndsWithVerdict ==
    (pc = "finished" /\ ~NoUsableKey) => shouldBlockMerge # None

---------------------------------------------------------------------------
(* Properties of checkMergeDecision *)

\* checkMergeDecision has returned
Decided == pc \in {"comment_await", "finished"} /\ shouldBlockMerge # None

Verdict == shouldBlockMerge[1]

\* the fenced blocks found in the combined response
FoundBlocks == jsonMatches(llmResponse[1])

\* the objects of the blocks that parse, in text order
ParsedBlocks ==
    LET ok == SelectSeq(FoundBlocks, LAMBDA b : JSONparse(b) # None)
    IN  [k \in 1..Len(ok) |-> JSONparse(ok[k])[1]]

\* every issue of the parsed blocks
CollectedIssues ==
    UNION { {ParsedBlocks[k].issues[1][n] : n \in 1..Len(ParsedBlocks[k].issues[1])} :
              k \in {j \in 1..Len(ParsedBlocks) : ParsedBlocks[j].issues # None} }

WellFormedIssues == \A x \in CollectedIssues : x.severity_proposed # None

AnyDoNotMerge ==
    \E k \in 1..Len(ParsedBlocks) :
        ParsedBlocks[k].final_recommendation = Some("do_not_merge")

\* some collected issue is critical with a confidence of 0.6 or more
AnyConfidentCritical ==
    \E x \in CollectedIssues :
        x.severity_proposed = Some("critical") /\ x.confidence >= 60

RECURSIVE CriticalCountSum(_)
CriticalCountSum(blocks) ==
    IF blocks = <<>> THEN 0
    ELSE (IF Head(blocks).metrics = None THEN 0
          ELSE Head(blocks).metrics[1].critical_count)
         + CriticalCountSum(Tail(blocks))

\* C14: when at least one fenced JSON block is found and every issue is
\* well-formed, the verdict is block exactly when some parsed block
\* recommends do_not_merge, or some collected issue is critical with
\* confidence >= 0.6 (0.6 included), or the critical counts of the parsed
\* blocks sum to more than 0; otherwise it is allow.
C14_StructuredVerdict ==
    (Decided /\ Len(FoundBlocks) > 0 /\ WellFormedIssues) =>
        (Verdict <=> \/ AnyDoNotMerge
                     \/ AnyConfidentCritical
                     \/ CriticalCountSum(ParsedBlocks) > 0)

\* blocked by a critical issue of confidence exactly 0.6 alone, next to a
\* block that does not parse
C14_Witness ==
    /\ Decided /\ Verdict
    /\ Len(FoundBlocks) > Len(ParsedBlocks) /\ WellFormedIssues
    /\ ~AnyDoNotMerge /\ CriticalCountSum(ParsedBlocks) = 0
    /\ \A x \in CollectedIssues : x.confidence <= 60

\* some parsed block carries a final_recommendation
AnyRecommendation ==
    \E k \in 1..Len(ParsedBlocks) : ParsedBlocks[k].final_recommendation # None

AllSafeToMerge ==
    \A k \in 1..Len(ParsedBlocks) :
        ParsedBlocks[k].final_recommendation \in {None, Some("safe_to_merge")}

\* C15 as stated: when parsed blocks carry a final_recommendation the verdict
\* follows the recommendations alone, block if any is do_not_merge, allow if
\* all are safe_to_merge, whatever the severities, confidences and counts.
C15_RecommendationAlwaysOverrides ==
    (Decided /\ AnyRecommendation) =>
        /\ AnyDoNotMerge => Verdict
        /\ AllSafeToMerge => ~Verdict

\* C15 amended: a do_not_merge recommendation of a parsed block blocks
\* whatever the issues and counts say; safe_to_merge recommendations do not
\* override: with well-formed issues the run is still blocked by a critical
\* issue of confidence >= 0.6 or by a positive critical count.
C15_DoNotMergeOverrides ==
    Decided =>
        /\ AnyDoNotMerge => Verdict
        /\ ( /\ AnyRecommendation /\ AllSafeToMerge /\ WellFormedIssues
             /\ (AnyConfidentCritical \/ CriticalCountSum(ParsedBlocks) > 0) )
           => Verdict

\* blocked by a do_not_merge next to a block that reports a suggestion only
\* and recommends safe_to_merge
C15_Witness ==
    /\ Decided /\ Verdict
    /\ AnyDoNotMerge
    /\ \E k \in 1..Len(ParsedBlocks) :
          ParsedBlocks[k].final_recommendation = Some("safe_to_merge")
    /\ CollectedIssues # {} /\ ~AnyConfidentCritical
    /\ CriticalCountSum(ParsedBlocks) = 0

\* C16: when no fenced JSON block is found, or every block found fails to
\* parse, the verdict is the one checkMergeDecisionLegacy gives for the
\* concatenated chunk texts.
C16_LegacyWhenNoBlockParses ==
    (Decided /\ Len(ParsedBlocks) = 0) =>
        Verdict = checkMergeDecisionLegacy(llmResponse[1])

\* the response reduced to its parseable blocks
ParseableAlone ==
    LET ok == SelectSeq(FoundBlocks, LAMBDA b : JSONparse(b) # None)
    IN  Concat([k \in 1..Len(ok) |-> Block(ok[k][1])])

\* C17: a block that fails to parse is skipped: when another block parses,
\* the verdict is the verdict of the parseable blocks alone.
C17_UnparseableBlockSkipped ==
    (Decided /\ Len(ParsedBlocks) > 0 /\ Len(FoundBlocks) > Len(ParsedBlocks)) =>
        Verdict = checkMergeDecision(ParseableAlone)

\* the issues of the reply at position k of results, tagged with k
IssuesOfChunk(k) ==
    IF results[k] = None THEN <<>>
    ELSE LET found == allIssues(jsonMatches(results[k][1]))
         IN  [n \in 1..Len(found) |-> [found[n] EXCEPT !.chunk = k]]

\* C18: every aggregated issue carries the position, in the dispatched
\* chunk list, of the chunk whose reply held it, and its original id, also
\* when a chunk failed or a reply holds zero or several JSON blocks.
C18_IssuesTaggedWithChunk ==
    (pc = "done" /\ llmResponse # None) =>
        allIssues(FoundBlocks) = Concat([k \in 1..Len(results) |-> IssuesOfChunk(k)])

\* the response holds one of the tokens
HasProse(tokens) == \E k \in 1..Len(llmResponse[1]) : llmResponse[1][k] \in tokens

\* C20: without any JSON block the search runs over the concatenated text
\* and ignores case: 'safe to merge' gives allow; 'memory leak' together
\* with 'race condition' and no approval phrase gives block.
C20_LegacySearch ==
    (Decided /\ Len(FoundBlocks) = 0) =>
        /\ HasProse({"safe to merge", "Safe To Merge"}) => ~Verdict
        /\ ( /\ HasProse({"memory leak", "Memory Leak"})
             /\ HasProse({"race condition", "RACE CONDITION"})
             /\ ~HasProse({"safe to merge", "Safe To Merge", "not safe to merge"}) )
           => Verdict

\* blocked on two keywords written in different cases and in the replies
\* of two chunks
C20_Witness ==
    /\ Decided /\ Verdict
    /\ Len(FoundBlocks) = 0
    /\ Len(results) >= 2
    /\ HasProse({"memory leak"}) /\ HasProse({"RACE CONDITION"})
    /\ ~HasProse({"do not merge"})

---------------------------------------------------------------------------
(* Properties of the dispatch policy *)

Started(k) == call[k].pc # "idle"

HasSettled(k) == call[k].pc = "returned"

Delaying == pc \in {"seq_delay", "batch_delay"}

\* C21: with at most 3 chunks a call starts only when every earlier call
\* has settled; with more than 3 chunks the calls go out in consecutive
\* batches of 2 and a batch starts only when every call of the earlier
\* batches has settled; a call starts only at the start of the run or when
\* a delay elapses, a delay is entered only with every started call settled
\* and some chunk still to send, and the run never ends out of a delay.
C21_DispatchPolicy ==
    /\ [](chunks # <<>> =>
            /\ \A k \in Idx : Started(k) =>
                  /\ k < Len(chunks)
                  /\ IF Len(chunks) <= 3
                     THEN \A j \in Idx : j < k => HasSettled(j)
                     ELSE /\ \A j \in Idx : j < 2 * (k \div 2) => HasSettled(j)
                          /\ \A j \in Idx : (j \div 2 = k \div 2 /\ j < Len(chunks))
                                                => Started(j)
            /\ Delaying =>
                  /\ \A k \in Idx : Started(k) => HasSettled(k)
                  /\ \E k \in Idx : k < Len(chunks) /\ ~Started(k)
            /\ (pc = "seq_delay") <=> (Delaying /\ Len(chunks) <= 3))
    /\ [][ /\ \A k \in Idx : (call[k].pc = "idle" /\ call'[k].pc # "idle")
                                => pc \in {"callLLM", "seq_delay", "batch_delay"}
           /\ (pc' = "done" /\ pc # "done") => ~Delaying ]_vars

\* the delay between the first and the second batch of a run of 5 chunks,
\* one call of the first batch having failed after its retries
C21_Witness ==
    /\ pc = "batch_delay"
    /\ Len(chunks) = 5 /\ i = 0
    /\ call[0].ret = None /\ call[1].ret # None
    /\ \A k \in 2..4 : ~Started(k)

\* the calls whose fetch is out
InFlight == {k \in Idx : call[k].pc = "fetching"}

\* C23: at every point of a run at most MAX_CONCURRENT_REQUESTS requests
\* are in flight, whatever the number of chunks.
C23_InFlightBound == Cardinality(InFlight) <= MAX_CONCURRENT_REQUESTS

---------------------------------------------------------------------------
(* Properties of the aggregation over degraded and failed chunks *)

\* the positions of results that hold the token-limit placeholder
Placeholders ==
    {k \in 1..Len(results) :
        results[k] = Some(handleTokenLimitExceeded(k - 1, Len(results)))}

\* the texts of the given positions of results, in chunk order, joined
TextOf(positions) ==
    LET ks == Ascending(positions)
    IN  Concat([n \in 1..Len(ks) |-> results[ks[n]][1]])

Succeeded == {k \in 1..Len(results) : results[k] # None}

\* C22: a run whose only chunk text is the token-limit placeholder is
\* allowed, and a run blocked with placeholders among its chunk texts is
\* blocked as well on the other chunk texts alone: the placeholder never
\* turns allow into block.
C22_PlaceholderIsNeutral ==
    (Decided /\ Placeholders # {}) =>
        /\ Succeeded = Placeholders => ~Verdict
        /\ Verdict => /\ Succeeded # Placeholders
                      /\ checkMergeDecision(TextOf(Succeeded \ Placeholders))

\* a blocked run of three chunks, the placeholder between a reply with a
\* JSON block and a reply in prose
C22_Witness ==
    /\ Decided /\ Verdict
    /\ Len(results) = 3 /\ Placeholders = {2}
    /\ Len(FoundBlocks) = 1
    /\ results[1] # None /\ results[3] # None
    /\ Len(jsonMatches(results[1][1])) = 1

---------------------------------------------------------------------------
(* Properties of the backoff of callLLMChunk *)

RateLimited(r) == r.kind = "http" /\ r.status = 429

ServerError(r) == r.kind = "http" /\ r.status >= 500

\* the wait in ms that answer r to attempt number a asks for
BackoffFor(r, a) ==
    IF RateLimited(r)
    THEN 1000 * (IF r.retryAfter # None /\ r.retryAfter[1] > 0
                 THEN r.retryAfter[1] ELSE 2^a)
    ELSE 1000 * 2^(a - 1)

\* C24: after a 429 the call waits for the retry-after hint in seconds when
\* it is a positive integer and for 2^attempt seconds otherwise; after a 5xx
\* it waits 1000 * 2^(attempt-1) ms, that is 1 s, 2 s, 4 s; the answer has
\* used up one of the maxRetries attempts.
C24_BackoffAmounts ==
    (pc = "call" /\ call[i].pc = "backoff" /\ history # <<>>) =>
        LET a == Len(history)
            r == history[a]
        IN  /\ call[i].attempt = a /\ a <= maxRetries
            /\ (RateLimited(r) \/ ServerError(r)) => call[i].delay = BackoffFor(r, a)
            /\ ServerError(r) => call[i].delay \in {1000, 2000, 4000}

\* the wait for a hint of 7 s on the third attempt, after a 503 and a 429
\* without hint
C24_Witness ==
    /\ pc = "call" /\ call[i].pc = "backoff"
    /\ Len(history) = maxRetries
    /\ ServerError(history[1])
    /\ RateLimited(history[2]) /\ history[2].retryAfter = None
    /\ RateLimited(history[3]) /\ history[3].retryAfter = Some(7)
    /\ call[i].delay = 7000

\* C30: a 429 or 5xx answer to the last attempt is followed by its full
\* backoff wait and only then by the return of null; a timeout, an invalid
\* 2xx body or another 4xx on the last attempt returns null at once; no
\* fetch follows the last attempt.
C30_LastAttempt ==
    /\ [](Len(history) = maxRetries => call[i].pc # "fetching")
    /\ [][ /\ (Len(history) = maxRetries - 1 /\ Len(history') = maxRetries) =>
                LET r == history'[maxRetries]
                IN  /\ (RateLimited(r) \/ ServerError(r)) =>
                          /\ call'[i].pc = "backoff"
                          /\ call'[i].delay = BackoffFor(r, maxRetries)
                    /\ (TransientFailure(r) \/ Other4xx(r)) =>
                          /\ call'[i].pc = "returned"
                          /\ call'[i].ret = None
           /\ (call[i].pc = "backoff" /\ call[i].attempt = maxRetries) =>
                /\ call'[i].pc = "returned" /\ call'[i].ret = None
                /\ history' = history ]_vars

\* null returned after the 4 s wait that followed a 503 on the third attempt
C30_Witness ==
    /\ pc = "call" /\ call[i].pc = "returned" /\ call[i].ret = None
    /\ Len(history) = maxRetries
    /\ ServerError(history[maxRetries])
    /\ RateLimited(history[1]) /\ TransientFailure(history[2])

---------------------------------------------------------------------------
(* Greedy chunking *)

\* the first n sections of chunk c, joined
FirstSections(c, n) == Concat(SubSeq(fileSectionsOf(c), 1, n))

\* C25: chunking is greedy in input order: with a positive maxChunkBytes a
\* section is appended whenever the buffer is empty or the section still
\* fits, and starts a new chunk otherwise; so a chunk with its sections
\* after the first never exceeds maxChunkBytes unless it is one section,
\* and every chunk together with the first section of the next chunk is
\* more than maxChunkBytes long.
C25_GreedyChunking ==
    (SplitDone /\ PositiveSize) =>
        /\ \A k \in 1..(Len(chunks) - 1) :
              ByteLength(chunks[k]) + ByteLength(FirstSections(chunks[k + 1], 1))
                  > maxChunkSize[1]
        /\ \A k \in 1..Len(chunks) :
              \A n \in 2..Len(fileSectionsOf(chunks[k])) :
                  ByteLength(FirstSections(chunks[k], n)) <= maxChunkSize[1]

\* a chunk of two sections filled to the byte, followed by another chunk
C25_Witness ==
    /\ SplitDone /\ PositiveSize
    /\ Len(chunks) >= 2
    /\ Len(fileSectionsOf(chunks[1])) = 2
    /\ ByteLength(chunks[1]) = maxChunkSize[1]
    /\ ByteLength(chunks[2]) < maxChunkSize[1]

---------------------------------------------------------------------------
(* Properties of the legacy decision and of the end of runReview *)

\* the prose of the replies in which some phrase of CONFIG occurs
DecisionWording ==
    {"Safe To Merge", "do not merge", "memory leak", "RACE CONDITION",
     "not safe to merge"}

\* C26: on the legacy path a response whose only decision wording is one
\* phrase of BLOCKING_PHRASES is blocked, for every such phrase.
C26_BlockingPhraseBlocks ==
    (Decided /\ Len(FoundBlocks) = 0) =>
        \A phrase \in BLOCKING_PHRASES :
            ( /\ HasProse({phrase})
              /\ ~HasProse(DecisionWording \ {phrase}) ) => Verdict

\* the prose in which an approval phrase occurs, whatever the case
ApprovalWording == {"safe to merge", "Safe To Merge", "not safe to merge"}

\* the prose in which a blocking phrase occurs, whatever the case
BlockingWording == {"do not merge", "DO NOT MERGE", "not safe to merge"}

\* at least 2 distinct critical keywords occur
TwoCriticalKeywords ==
    /\ HasProse({"memory leak", "Memory Leak"})
    /\ HasProse({"race condition", "RACE CONDITION"})

\* C27: on the legacy path an approval phrase anywhere in the concatenated
\* text gives allow even next to a blocking phrase or to two critical
\* keywords, from whichever chunks they come; otherwise a blocking phrase
\* gives block; otherwise the verdict is block exactly when at least 2
\* distinct critical keywords occur.
C27_LegacyPrecedence ==
    (Decided /\ Len(FoundBlocks) = 0) =>
        Verdict = IF HasProse(ApprovalWording) THEN FALSE
                  ELSE IF HasProse(BlockingWording) THEN TRUE
                  ELSE TwoCriticalKeywords

\* allowed on the approval phrase of the second chunk against the blocking
\* phrase of the first
C27_Witness ==
    /\ Decided /\ ~Verdict
    /\ Len(results) = 2
    /\ results[1] = Some(<<"do not merge">>)
    /\ results[2] = Some(<<"Safe To Merge">>)

\* C28: when only some of the chunks succeeded, the verdict is the one
\* checkMergeDecision gives for the texts of the chunks that succeeded,
\* joined in chunk order; when none succeeded no verdict blocks.
C28_FailedChunksDropped ==
    (pc \in {"comment_await", "finished"} /\ Succeeded # 1..Len(results)) =>
        IF Succeeded = {} THEN shouldBlockMerge = None
        ELSE shouldBlockMerge = Some(checkMergeDecision(TextOf(Succeeded)))

\* allowed on the replies of chunks 1 and 3, chunk 2 having failed
C28_Witness ==
    /\ Decided /\ ~Verdict
    /\ Len(results) = 3 /\ Succeeded = {1, 3}
    /\ Len(FoundBlocks) = 1
    /\ HasProse({"a"})

\* C29: core.setFailed is called exactly when checkMergeDecision returned
\* block, and not before the PR comment attempt is over; when callLLM
\* returned null there is no decision, no comment attempt and no failure.
C29_FailureSignal ==
    /\ failed => (pc = "finished" /\ shouldBlockMerge = Some(TRUE))
    /\ (pc = "finished" /\ shouldBlockMerge = Some(TRUE)) => failed
    /\ pc = "comment_await" => (shouldBlockMerge # None /\ llmResponse # None)
    /\ (pc \in {"done", "finished"} /\ llmResponse = None) =>
          (shouldBlockMerge = None /\ ~failed)

\* a blocked run over one reply, its other chunk having failed, at its end
C29_Witness ==
    /\ pc = "finished" /\ failed
    /\ Len(results) = 2 /\ Cardinality(Succeeded) = 1

=============================================================================
